---- MODULE Spec2Model ----
(***************************************************************************)
(* Model of the CSV-to-BigQuery loader of big_uery_handler.py:             *)
(* BigQueryUploader.upload_all_csvs and the operations it drives           *)
(* (table_exists, upload_csv, _create_table_and_load,                      *)
(* _append_via_staging_with_casts, _ensure_ingestion_date_column,          *)
(* _set_ingestion_date_if_exists) and the pure helper _safe_cast_expr.     *)
(*                                                                         *)
(* File names and table ids are sequences of one-character strings, so     *)
(* that lower(), endswith() and splitext() are computed, not assumed.      *)
(* Column names and type tags are strings; SQL text is a sequence of       *)
(* tokens in the order the f-strings of the source emit them.              *)
(***************************************************************************)
EXTENDS Integers, Sequences, FiniteSets, TLC

VARIABLES
    dir,               \* names of the files in download_path
    csv,               \* content of each CSV file: autodetected schema and rows
    tables,            \* the warehouse: table id -> [schema, rows]
    listing,           \* entries of os.listdir() the loop has not visited yet
    pc,                \* position of the single thread of control
    file_name,         \* loop variable of upload_all_csvs
    table_id,          \* destination id derived from file_name
    ingestion_date,    \* date.today() taken by upload_csv
    staging_table_id,  \* local of _append_via_staging_with_casts
    tgt_cols,          \* column list of the INSERT being built
    select_exprs,      \* expression list of the INSERT being built
    now,               \* the wall clock, in seconds
    invoked,           \* history: calls of upload_csv per file
    removals,          \* history: calls of os.remove per file
    status,            \* history: how upload_csv ended for each file
    removeFailed,      \* history: files whose os.remove raised
    path,              \* history: strategy taken by the current upload_csv
    stagingCreated,    \* history: the current merge created its staging table
    dropAttempted,     \* history: the current merge called delete_table
    before             \* history: destination table when upload_csv started

vars == <<dir, csv, tables, listing, pc, file_name, table_id, ingestion_date,
          staging_table_id, tgt_cols, select_exprs, now, invoked, removals,
          status, removeFailed, path, stagingCreated, dropAttempted, before>>

----------------------------------------------------------------------------
(* Bounds of the model *)

MaxStamp == 2
SecondsPerDay == 1
MaxFields == 2

----------------------------------------------------------------------------
(* Text helpers: str.lower, str.endswith, os.path.splitext *)

UpperChars == <<"A", "B", "C", "S", "V">>
LowerChars == <<"a", "b", "c", "s", "v">>

LowerChar(c) ==
    IF \E i \in 1..Len(UpperChars) : UpperChars[i] = c
    THEN LowerChars[CHOOSE i \in 1..Len(UpperChars) : UpperChars[i] = c]
    ELSE c

Lower(s) == [i \in 1..Len(s) |-> LowerChar(s[i])]

EndsWith(s, suffix) ==
    /\ Len(s) >= Len(suffix)
    /\ SubSeq(s, Len(s) - Len(suffix) + 1, Len(s)) = suffix

DotCsv == <<".", "c", "s", "v">>

\* os.path.splitext(name)[0]: the name up to its last dot, unless that dot
\* only follows dots (a leading-dot name has no extension)
SplitExtRoot(s) ==
    LET dots == {i \in 1..Len(s) : s[i] = "." /\ \E j \in 1..(i - 1) : s[j] # "."}
    IN  IF dots = {} THEN s
        ELSE SubSeq(s, 1, (CHOOSE i \in dots : \A k \in dots : k <= i) - 1)

IsCsvName(name) == EndsWith(Lower(name), DotCsv)

ProjectDataset == <<"p", ".", "d", ".">>

TableIdOf(name) == ProjectDataset \o Lower(SplitExtRoot(name))

StampDigits == <<"0", "1", "2", "3", "4", "5", "6", "7", "8", "9">>

\* strftime('%Y%m%d%H%M%S') of the clock: one digit per second of the model
Stamp(t) == <<StampDigits[t + 1]>>

StagingIdOf(target, t) == target \o <<"_", "_", "s", "t", "g", "_">> \o Stamp(t)

----------------------------------------------------------------------------
(* _CAST_TARGETS and _safe_cast_expr *)

CAST_TARGETS ==
    [STRING |-> "STRING", BOOL |-> "BOOL", BOOLEAN |-> "BOOL",
     INT64 |-> "INT64", INTEGER |-> "INT64", FLOAT64 |-> "FLOAT64",
     FLOAT |-> "FLOAT64", NUMERIC |-> "NUMERIC", BIGNUMERIC |-> "BIGNUMERIC",
     DATE |-> "DATE", DATETIME |-> "DATETIME", TIMESTAMP |-> "TIMESTAMP",
     TIME |-> "TIME", GEOGRAPHY |-> "GEOGRAPHY"]

\* str.upper on the type tags the model draws: the tags spelled in lower case
LowerSpelled == [string |-> "STRING", int64 |-> "INT64", date |-> "DATE"]

Upper(tag) == IF tag \in DOMAIN LowerSpelled THEN LowerSpelled[tag] ELSE tag

\* _CAST_TARGETS.get(target_type.upper(), "STRING")
CastTargetOf(target_type) ==
    IF Upper(target_type) \in DOMAIN CAST_TARGETS
    THEN CAST_TARGETS[Upper(target_type)]
    ELSE "STRING"

\* fault: the fail-soft cast for every target, STRING included
safe_cast_expr_soft(staging_alias, col_name, target_type) ==
    <<"SAFE_CAST(", staging_alias, ".", col_name, " AS ", CastTargetOf(target_type), ")",
      " AS ", col_name>>

safe_cast_expr(staging_alias, col_name, target_type) ==
    LET tgt == CastTargetOf(target_type)
    IN  IF tgt = "STRING"
        THEN <<"CAST(", staging_alias, ".", col_name, " AS ", "STRING", ")", " AS ", col_name>>
        ELSE <<"SAFE_CAST(", staging_alias, ".", col_name, " AS ", tgt, ")", " AS ", col_name>>

\* f"CAST(NULL AS {_CAST_TARGETS.get(tgt_type.upper(), 'STRING')}) AS {col}"
null_cast_expr(col, tgt_type) ==
    <<"CAST(", "NULL", " AS ", CastTargetOf(tgt_type), ")", " AS ", col>>

\* a column name with the letter case folded, as BigQuery compares names
FoldName(n) == IF n = "ID" THEN "id" ELSE n

\* fault: a target column the CSV lacks is left out instead of set to NULL
BuildSelectExprsPresentOnly(tgt_schema, stg_schema) ==
    LET stg_cols_set == {stg_schema[i].name : i \in 1..Len(stg_schema)}
        present(f) == f.name \in stg_cols_set
        kept == SelectSeq(tgt_schema, present)
    IN  [i \in 1..Len(kept) |-> safe_cast_expr("stg", kept[i].name, kept[i].type)]

\* fault: staging column names matched without regard to letter case
BuildSelectExprsFolded(tgt_schema, stg_schema) ==
    LET stg_cols_set == {FoldName(stg_schema[i].name) : i \in 1..Len(stg_schema)}
    IN  [i \in 1..Len(tgt_schema) |->
            IF FoldName(tgt_schema[i].name) \in stg_cols_set
            THEN safe_cast_expr("stg", tgt_schema[i].name, tgt_schema[i].type)
            ELSE null_cast_expr(tgt_schema[i].name, tgt_schema[i].type)]

\* the loop that builds select_exprs, one expression per target column
BuildSelectExprs(tgt_schema, stg_schema) ==
    LET stg_cols_set == {stg_schema[i].name : i \in 1..Len(stg_schema)}
    IN  [i \in 1..Len(tgt_schema) |->
            IF tgt_schema[i].name \in stg_cols_set
            THEN safe_cast_expr("stg", tgt_schema[i].name, tgt_schema[i].type)
            ELSE null_cast_expr(tgt_schema[i].name, tgt_schema[i].type)]

ColumnNames(schema) == [i \in 1..Len(schema) |-> schema[i].name]

----------------------------------------------------------------------------
(* The warehouse: tables, cells and the statements the loader issues *)

Null == [null |-> TRUE, text |-> ""]

Val(s) == [null |-> FALSE, text |-> s]

Field(n, t) == [name |-> n, type |-> t]

IngestionDate == "Ingestion_date"

DateTexts == <<"2026-11-01", "2026-11-02", "2026-11-03", "2026-11-04">>

\* str(date_value) inside DATE('...')
DateText(d) == DateTexts[d]

NumericTexts == {"1", "7"}

OldDateTexts == {"2020-01-01"}

\* whether SAFE_CAST of a text to the target type yields a value
Castable(text, tgt) ==
    CASE tgt \in {"INT64", "FLOAT64", "NUMERIC", "BIGNUMERIC"} -> text \in NumericTexts
      [] tgt = "DATE" -> text \in OldDateTexts \/ \E d \in 1..Len(DateTexts) : DateTexts[d] = text
      [] tgt = "STRING" -> TRUE
      [] OTHER -> FALSE

HasColumn(schema, n) == \E i \in 1..Len(schema) : schema[i].name = n

ColumnIndex(schema, n) == CHOOSE i \in 1..Len(schema) : schema[i].name = n

\* value of one generated expression over one staging row
EvalExpr(e, stg_schema, row) ==
    IF e[2] = "NULL" THEN Null
    ELSE LET cell == row[ColumnIndex(stg_schema, e[4])]
         IN  IF cell.null THEN Null
             ELSE IF e[1] = "CAST(" THEN cell
             ELSE IF Castable(cell.text, e[6]) THEN cell
             ELSE Null

\* INSERT INTO target (cols) SELECT exprs FROM staging: the i-th selected
\* value goes to the column named by the i-th entry of the column list
InsertSelect(target, cols, exprs, staging) ==
    LET newRow(r) ==
            [j \in 1..Len(target.schema) |->
                IF \E i \in 1..Len(cols) : cols[i] = target.schema[j].name
                THEN EvalExpr(exprs[CHOOSE i \in 1..Len(cols) : cols[i] = target.schema[j].name],
                              staging.schema, r)
                ELSE Null]
    IN  [target EXCEPT !.rows = @ \o [k \in 1..Len(staging.rows) |-> newRow(staging.rows[k])]]

\* load job: CSV source, skip_leading_rows=1, autodetect, WRITE_TRUNCATE
LoadTruncate(content) == [schema |-> content.schema, rows |-> content.rows]

\* list(table.schema) + [SchemaField("Ingestion_date", "DATE")], update_table
AppendDateColumn(table) ==
    [schema |-> Append(table.schema, Field(IngestionDate, "DATE")),
     rows |-> [k \in 1..Len(table.rows) |-> Append(table.rows[k], Null)]]

\* fault: the column is appended without looking at the schema
ensure_column_unchecked(table) == AppendDateColumn(table)

ensure_ingestion_date_column(table) ==
    IF HasColumn(table.schema, IngestionDate) THEN table ELSE AppendDateColumn(table)

\* fault: the UPDATE without its WHERE clause
UpdateEveryRow(table, d) ==
    LET m == ColumnIndex(table.schema, IngestionDate)
    IN  [table EXCEPT !.rows = [k \in 1..Len(@) |-> [@[k] EXCEPT ![m] = Val(DateText(d))]]]

\* UPDATE t SET Ingestion_date = DATE('d') WHERE Ingestion_date IS NULL
UpdateWhereNull(table, d) ==
    LET m == ColumnIndex(table.schema, IngestionDate)
    IN  [table EXCEPT !.rows =
            [k \in 1..Len(@) |-> IF @[k][m].null THEN [@[k] EXCEPT ![m] = Val(DateText(d))]
                                 ELSE @[k]]]

\* fault: the column looked up under a name in another letter case
set_ingestion_date_misnamed(table, date_value) ==
    IF ~HasColumn(table.schema, "ingestion_date") THEN table
    ELSE UpdateWhereNull(table, date_value)

set_ingestion_date_if_exists(table, date_value) ==
    IF ~HasColumn(table.schema, IngestionDate) THEN table
    ELSE UpdateWhereNull(table, date_value)

Marker(table, k) == table.rows[k][ColumnIndex(table.schema, IngestionDate)]

----------------------------------------------------------------------------
(* The inputs of a batch: directory entries, CSV contents, existing tables *)

FileA == <<"a", ".", "c", "s", "v">>
FileUpperA == <<"A", ".", "C", "S", "V">>
FileB == <<"b", ".", "c", "s", "v">>
FileTxt == <<"n", ".", "t", "x", "t">>

FileNames == {FileA, FileUpperA, FileB, FileTxt}

CsvFiles(d) == {f \in d : IsCsvName(f)}

\* CSV with columns id,total
CsvPlain ==
    [schema |-> <<Field("id", "INTEGER"), Field("total", "STRING")>>,
     rows |-> << <<Val("1"), Val("x")>> >>]

\* CSV that carries its own Ingestion_date column, empty in the second row
CsvDated ==
    [schema |-> <<Field("id", "INTEGER"), Field(IngestionDate, "DATE")>>,
     rows |-> << <<Val("7"), Val("2020-01-01")>>, <<Val("1"), Null>> >>]

\* CSV whose header differs in letter case and has a column of its own
CsvOdd ==
    [schema |-> <<Field("ID", "STRING"), Field("extra", "STRING")>>,
     rows |-> << <<Val("x"), Val("y")>> >>]

\* the batches: which content each CSV file of the directory holds
Batches ==
    {[f \in CsvFiles(FileNames) |->
        CASE f = FileA -> c[1] [] f = FileUpperA -> c[2] [] OTHER -> c[3]] :
     c \in {<<CsvPlain, CsvDated, CsvOdd>>, <<CsvOdd, CsvPlain, CsvDated>>,
            <<CsvDated, CsvOdd, CsvPlain>>}}

\* existing table with the marker column, one row still unmarked
TableOrders ==
    [schema |-> <<Field("id", "INTEGER"), Field("total", "NUMERIC"),
                  Field("when", "TIMESTAMP"), Field(IngestionDate, "DATE")>>,
     rows |-> << <<Val("1"), Val("1"), Null, Val("2020-01-01")>>,
                 <<Val("7"), Null, Null, Null>> >>]

\* existing table without the marker column, with a type outside _CAST_TARGETS
TablePlain ==
    [schema |-> <<Field("total", "STRING"), Field("id", "INTEGER"), Field("note", "BYTES")>>,
     rows |-> << <<Val("x"), Val("1"), Null>> >>]

ExistingTables == {TableOrders, TablePlain}

DestinationIds == {TableIdOf(f) : f \in CsvFiles(FileNames)}

\* the warehouses a batch may find: no table yet, or tables of earlier runs
Warehouses ==
    {w \in UNION {[ids -> ExistingTables] : ids \in SUBSET DestinationIds} :
        /\ \A t \in DOMAIN w : t # TableIdOf(FileA) => w[t] = TablePlain
        /\ TableIdOf(FileB) \in DOMAIN w =>
            TableIdOf(FileA) \in DOMAIN w /\ w[TableIdOf(FileA)] = TableOrders}

NoTable == [schema |-> <<>>, rows |-> <<>>]

----------------------------------------------------------------------------
(* Initial state: a directory with its files, a warehouse, nothing started. *)
(* download_path is the directory of the script itself, so it always holds  *)
(* an entry that is no CSV file.                                            *)

Init ==
    /\ dir \in {d \in SUBSET FileNames : FileTxt \in d}
    /\ \E b \in Batches : csv = [f \in CsvFiles(dir) |-> b[f]]
    /\ tables \in Warehouses
    /\ listing = {}
    /\ pc = "start"
    /\ file_name = <<>>
    /\ table_id = <<>>
    /\ ingestion_date = 1
    /\ staging_table_id = <<>>
    /\ tgt_cols = <<>>
    /\ select_exprs = <<>>
    /\ now = 1
    /\ invoked = [f \in dir |-> 0]
    /\ removals = [f \in dir |-> 0]
    /\ status = [f \in dir |-> "none"]
    /\ removeFailed = {}
    /\ path = "none"
    /\ stagingCreated = FALSE
    /\ dropAttempted = FALSE
    /\ before = NoTable

----------------------------------------------------------------------------
(* upload_all_csvs *)

loopVars == <<file_name, table_id, ingestion_date, staging_table_id, tgt_cols,
              select_exprs, path, stagingCreated, dropAttempted, before>>

\* date.today() at clock value t
DayOf(t) == (t + SecondsPerDay - 1) \div SecondsPerDay

\* for file_name in os.listdir(self.download_path): the listing is taken once;
\* its order is the file system's choice, made here entry by entry
ListDir ==
    /\ pc = "start"
    /\ listing' = dir
    /\ pc' = "loop"
    /\ UNCHANGED <<dir, csv, tables, now, invoked, removals, status, removeFailed>>
    /\ UNCHANGED loopVars

\* if not file_name.lower().endswith(".csv"): continue
SkipEntry ==
    /\ pc = "loop"
    /\ \E f \in listing :
        /\ ~IsCsvName(f)
        /\ listing' = listing \ {f}
    /\ UNCHANGED <<dir, csv, tables, pc, now, invoked, removals, status, removeFailed>>
    /\ UNCHANGED loopVars

\* table_name, table_id, file_path; try: self.upload_csv(file_path, table_id)
\* upload_csv starts by taking ingestion_date = date.today()
BeginUpload ==
    /\ pc = "loop"
    /\ \E f \in listing :
        /\ IsCsvName(f)
        /\ file_name' = f
        /\ listing' = listing \ {f}
        /\ table_id' = TableIdOf(f)
        /\ invoked' = [invoked EXCEPT ![f] = @ + 1]
        /\ before' = IF TableIdOf(f) \in DOMAIN tables THEN tables[TableIdOf(f)] ELSE NoTable
    /\ \E t \in now..MaxStamp : now' = t /\ ingestion_date' = DayOf(t)
    /\ path' = "none"
    /\ stagingCreated' = FALSE
    /\ dropAttempted' = FALSE
    /\ staging_table_id' = <<>>
    /\ tgt_cols' = <<>>
    /\ select_exprs' = <<>>
    /\ pc' = "table_exists"
    /\ UNCHANGED <<dir, csv, tables, removals, status, removeFailed>>

\* the loop ends when the listing is exhausted
EndLoop ==
    /\ pc = "loop"
    /\ listing = {}
    /\ pc' = "done"
    /\ UNCHANGED <<dir, csv, tables, listing, now, invoked, removals, status, removeFailed>>
    /\ UNCHANGED loopVars

\* the iteration is over: the locals of upload_csv are gone and the history
\* of the call is forgotten
LeaveIteration ==
    /\ file_name' = <<>>
    /\ table_id' = <<>>
    /\ ingestion_date' = 1
    /\ staging_table_id' = <<>>
    /\ tgt_cols' = <<>>
    /\ select_exprs' = <<>>
    /\ path' = "none"
    /\ stagingCreated' = FALSE
    /\ dropAttempted' = FALSE
    /\ before' = NoTable

\* finally: os.remove(file_path) succeeds
RemoveFile ==
    /\ pc = "finally"
    /\ removals' = [removals EXCEPT ![file_name] = @ + 1]
    /\ dir' = dir \ {file_name}
    /\ pc' = "loop"
    /\ LeaveIteration
    /\ UNCHANGED <<csv, tables, listing, now, invoked, status, removeFailed>>

\* finally: os.remove(file_path) raises; the inner except logs and goes on
RemoveFileFails ==
    /\ pc = "finally"
    /\ removals' = [removals EXCEPT ![file_name] = @ + 1]
    /\ removeFailed' = removeFailed \cup {file_name}
    /\ pc' = "loop"
    /\ LeaveIteration
    /\ UNCHANGED <<dir, csv, tables, listing, now, invoked, status>>

----------------------------------------------------------------------------
(* upload_csv and the two load strategies *)

orchVars == <<dir, csv, listing, invoked, removals, removeFailed>>

\* table_exists returns True: get_table succeeded; the staging path is taken
DispatchExisting ==
    /\ pc = "table_exists"
    /\ table_id \in DOMAIN tables
    /\ path' = "merge"
    /\ pc' = "staging_load"
    /\ UNCHANGED <<tables, now, status, file_name, table_id, ingestion_date,
                   staging_table_id, tgt_cols, select_exprs, stagingCreated,
                   dropAttempted, before>>
    /\ UNCHANGED orchVars

\* fault: table_exists swallows the not-found error only; any other failure
\* of the metadata fetch leaves upload_csv as an exception
DispatchNewPropagating ==
    /\ pc = "table_exists"
    /\ IF table_id \in DOMAIN tables
       THEN /\ status' = [status EXCEPT ![file_name] = "failed"]
            /\ pc' = "finally"
            /\ path' = path
       ELSE /\ status' = status
            /\ pc' = "create_load"
            /\ path' = "create"
    /\ UNCHANGED <<tables, now, file_name, table_id, ingestion_date,
                   staging_table_id, tgt_cols, select_exprs, stagingCreated,
                   dropAttempted, before>>
    /\ UNCHANGED orchVars

\* table_exists returns False: the table is absent, or get_table raised for
\* any other reason and the exception was swallowed
DispatchNew ==
    /\ pc = "table_exists"
    /\ path' = "create"
    /\ pc' = "create_load"
    /\ UNCHANGED <<tables, now, status, file_name, table_id, ingestion_date,
                   staging_table_id, tgt_cols, select_exprs, stagingCreated,
                   dropAttempted, before>>
    /\ UNCHANGED orchVars

\* _create_table_and_load: load_table_from_file(...).result() with WRITE_TRUNCATE
CreateTableLoad ==
    /\ pc = "create_load"
    /\ tables' = [t \in DOMAIN tables \cup {table_id} |->
                    IF t = table_id THEN LoadTruncate(csv[file_name]) ELSE tables[t]]
    /\ pc' = "ensure_column"
    /\ UNCHANGED <<now, status>>
    /\ UNCHANGED loopVars
    /\ UNCHANGED orchVars

\* _create_table_and_load: self._ensure_ingestion_date_column(table_id)
EnsureColumn ==
    /\ pc = "ensure_column"
    /\ table_id \in DOMAIN tables
    /\ tables' = [tables EXCEPT ![table_id] = ensure_ingestion_date_column(@)]
    /\ pc' = "set_date"
    /\ UNCHANGED <<now, status>>
    /\ UNCHANGED loopVars
    /\ UNCHANGED orchVars

\* _append_via_staging_with_casts: name the staging table after the clock and
\* load the CSV into it with WRITE_TRUNCATE
StagingLoad ==
    /\ pc = "staging_load"
    /\ \E t \in now..MaxStamp :
        /\ now' = t
        /\ staging_table_id' = StagingIdOf(table_id, t)
        /\ tables' = [x \in DOMAIN tables \cup {StagingIdOf(table_id, t)} |->
                        IF x = StagingIdOf(table_id, t)
                        THEN LoadTruncate(csv[file_name]) ELSE tables[x]]
    /\ stagingCreated' = TRUE
    /\ pc' = "read_schemas"
    /\ UNCHANGED <<status, file_name, table_id, ingestion_date, tgt_cols,
                   select_exprs, path, dropAttempted, before>>
    /\ UNCHANGED orchVars

\* get_table of both tables, tgt_cols, and the loop building select_exprs
ReadSchemas ==
    /\ pc = "read_schemas"
    /\ table_id \in DOMAIN tables
    /\ staging_table_id \in DOMAIN tables
    /\ tgt_cols' = ColumnNames(tables[table_id].schema)
    /\ select_exprs' = BuildSelectExprs(tables[table_id].schema,
                                        tables[staging_table_id].schema)
    /\ pc' = "insert"
    /\ UNCHANGED <<tables, now, status, file_name, table_id, ingestion_date,
                   staging_table_id, path, stagingCreated, dropAttempted, before>>
    /\ UNCHANGED orchVars

\* self.client.query(insert_sql).result()
RunInsert ==
    /\ pc = "insert"
    /\ table_id \in DOMAIN tables
    /\ staging_table_id \in DOMAIN tables
    /\ tables' = [tables EXCEPT ![table_id] =
                    InsertSelect(@, tgt_cols, select_exprs, tables[staging_table_id])]
    /\ pc' = "drop_staging"
    /\ UNCHANGED <<now, status>>
    /\ UNCHANGED loopVars
    /\ UNCHANGED orchVars

\* self.client.delete_table(staging_table_id, not_found_ok=True)
DropStaging ==
    /\ pc = "drop_staging"
    /\ tables' = [t \in DOMAIN tables \ {staging_table_id} |-> tables[t]]
    /\ dropAttempted' = TRUE
    /\ pc' = "set_date"
    /\ UNCHANGED <<now, status, file_name, table_id, ingestion_date,
                   staging_table_id, tgt_cols, select_exprs, path,
                   stagingCreated, before>>
    /\ UNCHANGED orchVars

\* delete_table raises for a reason other than not-found
DropStagingFails ==
    /\ pc = "drop_staging"
    /\ dropAttempted' = TRUE
    /\ status' = [status EXCEPT ![file_name] = "failed"]
    /\ pc' = "finally"
    /\ UNCHANGED <<tables, now, file_name, table_id, ingestion_date,
                   staging_table_id, tgt_cols, select_exprs, path,
                   stagingCreated, before>>
    /\ UNCHANGED orchVars

\* fault: the column is ensured on every path before the marker is set
SetIngestionDateEnsuring ==
    /\ pc = "set_date"
    /\ table_id \in DOMAIN tables
    /\ tables' = [tables EXCEPT ![table_id] =
                    set_ingestion_date_if_exists(ensure_ingestion_date_column(@),
                                                 ingestion_date)]
    /\ status' = [status EXCEPT ![file_name] = "ok"]
    /\ pc' = "finally"
    /\ UNCHANGED now
    /\ UNCHANGED loopVars
    /\ UNCHANGED orchVars

\* self._set_ingestion_date_if_exists(table_id, ingestion_date); upload_csv
\* returns and the try block logs the file as finished
SetIngestionDate ==
    /\ pc = "set_date"
    /\ table_id \in DOMAIN tables
    /\ tables' = [tables EXCEPT ![table_id] =
                    set_ingestion_date_if_exists(@, ingestion_date)]
    /\ status' = [status EXCEPT ![file_name] = "ok"]
    /\ pc' = "finally"
    /\ UNCHANGED now
    /\ UNCHANGED loopVars
    /\ UNCHANGED orchVars

\* fault: no except clause around upload_csv, the exception ends the batch
RaiseUncaught ==
    /\ pc \in {"create_load", "ensure_column", "staging_load", "read_schemas",
               "insert", "set_date"}
    /\ status' = [status EXCEPT ![file_name] = "failed"]
    /\ pc' = "done"
    /\ UNCHANGED <<tables, now>>
    /\ UNCHANGED loopVars
    /\ UNCHANGED orchVars

\* fault: os.remove placed after upload_csv inside the try block, so that a
\* failed file is never removed
RaiseSkipsRemove ==
    /\ pc \in {"create_load", "ensure_column", "staging_load", "read_schemas",
               "insert", "set_date"}
    /\ status' = [status EXCEPT ![file_name] = "failed"]
    /\ pc' = "loop"
    /\ LeaveIteration
    /\ UNCHANGED <<tables, now>>
    /\ UNCHANGED orchVars

\* a warehouse call (load job, metadata fetch, schema update, query) or the
\* open() of the file raises; the statement has no effect and the exception
\* reaches the except clause of upload_all_csvs
Raise ==
    /\ pc \in {"create_load", "ensure_column", "staging_load", "read_schemas",
               "insert", "set_date"}
    /\ status' = [status EXCEPT ![file_name] = "failed"]
    /\ pc' = "finally"
    /\ UNCHANGED <<tables, now>>
    /\ UNCHANGED loopVars
    /\ UNCHANGED orchVars

----------------------------------------------------------------------------

Next ==
    \/ ListDir
    \/ SkipEntry
    \/ BeginUpload
    \/ EndLoop
    \/ DispatchExisting
    \/ DispatchNew
    \/ CreateTableLoad
    \/ EnsureColumn
    \/ StagingLoad
    \/ ReadSchemas
    \/ RunInsert
    \/ DropStaging
    \/ DropStagingFails
    \/ SetIngestionDate
    \/ Raise
    \/ RemoveFile
    \/ RemoveFileFails

Spec == Init /\ [][Next]_vars

----------------------------------------------------------------------------
(* The expression builder over drawn schemas: every type tag, present and   *)
(* missing columns, names that differ in letter case only                   *)

TypeTags ==
    DOMAIN CAST_TARGETS \cup DOMAIN LowerSpelled \cup {"BYTES", "JSON"}

CommonTags == {"STRING", "INTEGER"}

ColNames == {"id", "ID", "total", "when"}

NameLists(longest) ==
    UNION {{c \in [1..n -> ColNames] :
                \A i, j \in 1..n : FoldName(c[i]) = FoldName(c[j]) => i = j} :
           n \in 1..longest}

\* destination schemas: any tag in one field, common tags in the others
TargetSchemas ==
    {[i \in 1..Len(c) |-> Field(c[i], IF i = k THEN t ELSE u)] :
        c \in NameLists(MaxFields), k \in 1..MaxFields, t \in TypeTags, u \in CommonTags}

\* staging schemas: what autodetection makes of a CSV header, which may have
\* more columns than the destination
StagingSchemas ==
    {[i \in 1..Len(c) |-> Field(c[i], "STRING")] : c \in NameLists(MaxFields + 1)}

DrawnTarget == TableIdOf(FileA)

MergeInit ==
    /\ dir = {}
    /\ csv = <<>>
    /\ tables = <<>>
    /\ listing = {}
    /\ pc = "draw"
    /\ file_name = <<>>
    /\ table_id = DrawnTarget
    /\ ingestion_date = 1
    /\ staging_table_id = StagingIdOf(DrawnTarget, 1)
    /\ tgt_cols = <<>>
    /\ select_exprs = <<>>
    /\ now = 1
    /\ invoked = <<>>
    /\ removals = <<>>
    /\ status = <<>>
    /\ removeFailed = {}
    /\ path = "merge"
    /\ stagingCreated = TRUE
    /\ dropAttempted = FALSE
    /\ before = NoTable

\* a destination table and a staging table as _append_via_staging_with_casts
\* finds them when it fetches the two schemas
DrawSchemas ==
    /\ pc = "draw"
    /\ \E tgt \in TargetSchemas, stg \in StagingSchemas :
        tables' = [x \in {table_id, staging_table_id} |->
                    IF x = table_id THEN [schema |-> tgt, rows |-> <<>>]
                    ELSE [schema |-> stg, rows |-> <<>>]]
    /\ tgt_cols' = <<>>
    /\ select_exprs' = <<>>
    /\ pc' = "read_schemas"
    /\ UNCHANGED <<now, status, file_name, table_id, ingestion_date,
                   staging_table_id, path, stagingCreated, dropAttempted, before>>
    /\ UNCHANGED orchVars

MergeNext == DrawSchemas \/ ReadSchemas

MergeSpec == MergeInit /\ [][MergeNext]_vars

----------------------------------------------------------------------------
(* Properties of the batch orchestrator *)

Enumerated == {f \in DOMAIN invoked : IsCsvName(f)}

\* C1: a failure while processing one CSV file never prevents the others from
\* being attempted: upload_csv is never invoked twice on a file, and when
\* upload_all_csvs has returned it has been invoked exactly once on every
\* enumerated CSV file and never on another entry, whichever files failed.
C1_EachCsvUploadedOnce ==
    /\ \A f \in DOMAIN invoked : invoked[f] <= 1
    /\ pc = "done" =>
        \A f \in DOMAIN invoked : invoked[f] = IF IsCsvName(f) THEN 1 ELSE 0

\* a batch of three CSV files has returned, one file failed and two succeeded
C1_Witness ==
    /\ pc = "done"
    /\ Cardinality(Enumerated) = 3
    /\ Cardinality({f \in Enumerated : status[f] = "failed"}) = 1
    /\ Cardinality({f \in Enumerated : status[f] = "ok"}) = 2
    /\ \A f \in Enumerated : invoked[f] = 1

\* C2: when upload_all_csvs has returned, os.remove has been attempted once
\* for every enumerated CSV file, failed or not; a file whose removal did not
\* raise is gone from the directory, so if no removal raised no CSV file of
\* the batch is left.
C2_EveryCsvRemoved ==
    pc = "done" =>
        /\ \A f \in Enumerated : removals[f] = 1
        /\ \A f \in Enumerated \ removeFailed : f \notin dir
        /\ removeFailed = {} => CsvFiles(dir) = {}

\* the batch has returned, a file whose upload failed is gone from the
\* directory together with the files that succeeded
C2_Witness ==
    /\ pc = "done"
    /\ \E f \in Enumerated : status[f] = "failed" /\ removals[f] = 1 /\ f \notin dir
    /\ \E f \in Enumerated : status[f] = "ok" /\ f \notin dir
    /\ removeFailed = {}

----------------------------------------------------------------------------
(* Properties of the staging merge *)

\* C3: once _append_via_staging_with_casts has created its staging table, a
\* drop of that table has been attempted by the time the load attempt ends,
\* whether the schema fetch and the INSERT-SELECT succeeded or failed.
C3_StagingDropAttempted ==
    pc = "finally" /\ stagingCreated => dropAttempted

\* the destination and staging schemas the merge read, and their names
TargetSchema == tables[table_id].schema

StagingSchema == tables[staging_table_id].schema

StagingNames == {StagingSchema[i].name : i \in 1..Len(StagingSchema)}

TargetNames == {TargetSchema[i].name : i \in 1..Len(TargetSchema)}

Recognized(tag) == Upper(tag) \in DOMAIN CAST_TARGETS

\* the staging column an expression reads, if it reads one
ReadsStaging(e, c) == e[2] = "stg" /\ e[3] = "." /\ e[4] = c

\* C4: the SELECT list built for the INSERT has exactly one expression per
\* destination field, in destination order; the i-th expression is aliased to
\* the i-th column of the INSERT column list, which is the i-th destination
\* field; a staging column that is no destination column is read by no
\* expression.
C4_SelectListMatchesTarget ==
    pc = "insert" =>
        /\ Len(select_exprs) = Len(TargetSchema)
        /\ Len(tgt_cols) = Len(TargetSchema)
        /\ \A i \in 1..Len(TargetSchema) :
            /\ tgt_cols[i] = TargetSchema[i].name
            /\ i <= Len(select_exprs) =>
                /\ select_exprs[i][Len(select_exprs[i])] = tgt_cols[i]
                /\ select_exprs[i][Len(select_exprs[i]) - 1] = " AS "
        /\ \A i \in 1..Len(select_exprs) : \A c \in StagingNames \ TargetNames :
            ~ReadsStaging(select_exprs[i], c)

\* the staging schema is a strict superset of a two-column destination schema
C4_Witness ==
    /\ pc = "insert"
    /\ Len(TargetSchema) = 2
    /\ TargetNames \subseteq StagingNames
    /\ StagingNames # TargetNames
    /\ Len(select_exprs) = 2

\* C5: a destination field with no staging column of exactly its name gets
\* CAST(NULL AS <cast target of the field's type>) and reads no staging column,
\* also when a staging column differs from it in letter case only; a
\* destination field with a staging column of its name gets the expression of
\* _safe_cast_expr over that staging column.
C5_MissingColumnIsTypedNull ==
    pc = "insert" =>
        \A i \in 1..Len(TargetSchema) :
            LET f == TargetSchema[i]
                e == select_exprs[i]
            IN  IF f.name \in StagingNames
                THEN /\ ReadsStaging(e, f.name)
                     /\ e = safe_cast_expr("stg", f.name, f.type)
                ELSE /\ e = <<"CAST(", "NULL", " AS ", CastTargetOf(f.type), ")", " AS ", f.name>>
                     /\ \A c \in StagingNames : ~ReadsStaging(e, c)

\* a destination column whose only staging counterpart differs in letter case
C5_Witness ==
    /\ pc = "insert"
    /\ \E i \in 1..Len(TargetSchema) :
        /\ TargetSchema[i].name \notin StagingNames
        /\ \E c \in StagingNames : FoldName(c) = FoldName(TargetSchema[i].name)
        /\ select_exprs[i][2] = "NULL"
    /\ \E i \in 1..Len(TargetSchema) : TargetSchema[i].name \in StagingNames

\* C6: for a destination field present in the staging table, the resolver
\* emits CAST(... AS STRING) when the field's tag is STRING, SAFE_CAST to the
\* mapped target for every other recognized tag, and for an unrecognized tag
\* the very expression it emits for STRING.
C6_CastShapeByTag ==
    pc = "insert" =>
        \A i \in 1..Len(TargetSchema) :
            LET f == TargetSchema[i]
                e == select_exprs[i]
            IN  f.name \in StagingNames =>
                    /\ Upper(f.type) = "STRING" => e[1] = "CAST(" /\ e[6] = "STRING"
                    /\ Recognized(f.type) /\ Upper(f.type) # "STRING" =>
                        /\ e[1] = "SAFE_CAST("
                        /\ e[6] = CAST_TARGETS[Upper(f.type)]
                        /\ e[6] # "STRING"
                    /\ ~Recognized(f.type) =>
                        e = <<"CAST(", "stg", ".", f.name, " AS ", "STRING", ")", " AS ", f.name>>

\* one merge casts a column of an unrecognized tag beside a recognized one
C6_Witness ==
    /\ pc = "insert"
    /\ \E i, j \in 1..Len(TargetSchema) :
        /\ TargetSchema[i].name \in StagingNames
        /\ TargetSchema[j].name \in StagingNames
        /\ ~Recognized(TargetSchema[i].type)
        /\ select_exprs[i][1] = "CAST("
        /\ TargetSchema[j].type = "INTEGER"
        /\ select_exprs[j][1] = "SAFE_CAST("

----------------------------------------------------------------------------
(* Properties of the ingestion marker and of the two load paths *)

Days == 1..DayOf(MaxStamp)

Marked(table) == HasColumn(table.schema, IngestionDate)

\* C7: on every table upload_csv is about to call the setter on, setting the
\* marker twice with one date gives what setting it once gives; a call with
\* any date leaves the schema, the number of rows and every row whose marker
\* is not null as they were, and changes nothing but the marker of the rows
\* whose marker is null.
C7_MarkerSetterIdempotent ==
    pc = "set_date" /\ table_id \in DOMAIN tables =>
    \A d, e \in Days :
        LET T == tables[table_id]
            once == set_ingestion_date_if_exists(T, d)
        IN  /\ set_ingestion_date_if_exists(once, d) = once
            /\ once.schema = T.schema
            /\ Len(once.rows) = Len(T.rows)
            /\ ~Marked(T) => once = T
            /\ Marked(T) =>
                \A k \in 1..Len(T.rows) :
                    /\ ~Marker(T, k).null =>
                        set_ingestion_date_if_exists(T, e).rows[k] = T.rows[k]
                    /\ Marker(T, k).null =>
                        once.rows[k] =
                            [T.rows[k] EXCEPT ![ColumnIndex(T.schema, IngestionDate)] =
                                Val(DateText(d))]
            /\ Marked(T) =>
                set_ingestion_date_if_exists(once, e) = once

\* upload_csv has run the setter on a table that held a marked and an
\* unmarked row: the unmarked row carries the date, the marked one is as before
C7_Witness ==
    /\ pc = "finally"
    /\ status[file_name] = "ok"
    /\ path = "merge"
    /\ Marked(before)
    /\ \E k, j \in 1..Len(before.rows) :
        /\ Marker(before, k).null
        /\ Marker(tables[table_id], k) = Val(DateText(ingestion_date))
        /\ ~Marker(before, j).null
        /\ Marker(before, j) # Val(DateText(ingestion_date))
        /\ tables[table_id].rows[j] = before.rows[j]

\* C8: when upload_csv has completed successfully and the destination schema
\* carries the Ingestion_date column, no row of the destination has a null
\* marker, on the new-table path and on the staging-merge path alike.
C8_NoNullMarkerAfterSuccess ==
    pc = "finally" /\ status[file_name] = "ok" /\ Marked(tables[table_id]) =>
        \A k \in 1..Len(tables[table_id].rows) : ~Marker(tables[table_id], k).null

\* a successful merge of a CSV without the marker column into a table with it:
\* the rows inserted with a typed NULL carry the date of the load
C8_Witness ==
    /\ pc = "finally"
    /\ status[file_name] = "ok"
    /\ path = "merge"
    /\ Marked(tables[table_id])
    /\ ~HasColumn(csv[file_name].schema, IngestionDate)
    /\ Len(tables[table_id].rows) > Len(before.rows)
    /\ Marker(tables[table_id], Len(tables[table_id].rows)) = Val(DateText(ingestion_date))

\* C9: when _create_table_and_load has completed, the destination exists, its
\* rows are the rows of the CSV, and its schema is the autodetected schema,
\* followed by Ingestion_date DATE if and only if the autodetected schema has
\* no field of that name; the column is there exactly once.
C9_NewTableSchema ==
    pc = "set_date" /\ path = "create" =>
        /\ table_id \in DOMAIN tables
        /\ LET T == tables[table_id]
               C == csv[file_name]
               n == Len(C.schema)
           IN  /\ T.schema = IF HasColumn(C.schema, IngestionDate) THEN C.schema
                             ELSE Append(C.schema, Field(IngestionDate, "DATE"))
               /\ SubSeq(T.schema, 1, n) = C.schema
               /\ Cardinality({i \in 1..Len(T.schema) : T.schema[i].name = IngestionDate}) = 1
               /\ Len(T.rows) = Len(C.rows)
               /\ \A k \in 1..Len(T.rows) :
                    /\ Len(T.rows[k]) = Len(T.schema)
                    /\ SubSeq(T.rows[k], 1, n) = C.rows[k]
                    /\ \A i \in (n + 1)..Len(T.schema) : T.rows[k][i] = Null

\* the loader has created a table from a CSV without the marker column and
\* appended the column to it
C9_Witness ==
    /\ pc = "set_date"
    /\ path = "create"
    /\ ~HasColumn(csv[file_name].schema, IngestionDate)
    /\ Len(tables[table_id].schema) = Len(csv[file_name].schema) + 1
    /\ Len(tables[table_id].rows) > 0

\* C10: from the moment upload_csv takes the staging-merge path to the end of
\* the call, successful or not, the destination exists and its ordered field
\* list is the one it had when the call started.
C10_MergeKeepsSchema ==
    path = "merge" =>
        /\ table_id \in DOMAIN tables
        /\ tables[table_id].schema = before.schema

\* a successful merge from a CSV with a column the destination lacks and
\* without a column the destination has
C10_Witness ==
    /\ path = "merge"
    /\ pc = "finally"
    /\ status[file_name] = "ok"
    /\ \E i \in 1..Len(csv[file_name].schema) :
        ~HasColumn(before.schema, csv[file_name].schema[i].name)
    /\ \E i \in 1..Len(before.schema) :
        ~HasColumn(csv[file_name].schema, before.schema[i].name)
    /\ Len(tables[table_id].rows) > Len(before.rows)
    /\ tables[table_id].schema = before.schema

----------------------------------------------------------------------------
(* Properties of the existence test *)

\* the table was there when upload_csv started and table_exists said False:
\* the metadata fetch failed for a reason other than absence
FetchFailedOnExisting == path = "create" /\ before # NoTable

\* C11: table_exists never raises, so every call of upload_csv that has ended
\* went down one of the two paths; it answers True only for a table that is
\* there; and when the fetch fails for a table that is there, upload_csv
\* runs the new-table load, after which the table holds the schema and rows
\* of the CSV in place of what it held.
C11_FailedFetchMeansNewTable ==
    /\ pc = "table_exists" => status[file_name] = "none"
    /\ pc = "finally" => path \in {"merge", "create"}
    /\ path = "merge" => before # NoTable
    /\ FetchFailedOnExisting => pc \in {"create_load", "ensure_column", "set_date", "finally"}
    /\ FetchFailedOnExisting /\ pc = "ensure_column" =>
        /\ table_id \in DOMAIN tables
        /\ tables[table_id] = LoadTruncate(csv[file_name])

\* the fetch failed for a table with two rows and the truncating load has
\* put the rows of the CSV in their place
C11_Witness ==
    /\ FetchFailedOnExisting
    /\ pc = "ensure_column"
    /\ before = TableOrders
    /\ tables[table_id].rows = csv[file_name].rows
    /\ \A k \in 1..Len(tables[table_id].rows) :
        \A j \in 1..Len(before.rows) : tables[table_id].rows[k] # before.rows[j]

----------------------------------------------------------------------------
(* The batch when the metadata fetch is reliable: table_exists answers False *)
(* for an absent table only. The directory may hold a CSV file whose base    *)
(* name is the staging name of another file's destination.                   *)

FileStaged == <<"a", "_", "_", "s", "t", "g", "_", "1", ".", "c", "s", "v">>

ReliableFiles == {FileA, FileUpperA, FileStaged, FileTxt}

ReliableWarehouses ==
    {w \in UNION {[ids -> ExistingTables] :
                    ids \in SUBSET {TableIdOf(FileA), TableIdOf(FileStaged)}} :
        TableIdOf(FileStaged) \in DOMAIN w => w[TableIdOf(FileStaged)] = TablePlain}

ReliableInit ==
    /\ dir \in {d \in SUBSET ReliableFiles : FileTxt \in d}
    /\ \E b \in Batches :
        csv = [f \in CsvFiles(dir) |-> IF f = FileStaged THEN CsvPlain ELSE b[f]]
    /\ tables \in ReliableWarehouses
    /\ listing = {}
    /\ pc = "start"
    /\ file_name = <<>>
    /\ table_id = <<>>
    /\ ingestion_date = 1
    /\ staging_table_id = <<>>
    /\ tgt_cols = <<>>
    /\ select_exprs = <<>>
    /\ now = 1
    /\ invoked = [f \in dir |-> 0]
    /\ removals = [f \in dir |-> 0]
    /\ status = [f \in dir |-> "none"]
    /\ removeFailed = {}
    /\ path = "none"
    /\ stagingCreated = FALSE
    /\ dropAttempted = FALSE
    /\ before = NoTable

\* table_exists returns False because get_table raised NotFound
DispatchAbsent ==
    /\ table_id \notin DOMAIN tables
    /\ DispatchNew

ReliableNext ==
    \/ ListDir
    \/ SkipEntry
    \/ BeginUpload
    \/ EndLoop
    \/ DispatchExisting
    \/ DispatchAbsent
    \/ CreateTableLoad
    \/ EnsureColumn
    \/ StagingLoad
    \/ ReadSchemas
    \/ RunInsert
    \/ DropStaging
    \/ DropStagingFails
    \/ SetIngestionDate
    \/ Raise
    \/ RemoveFile
    \/ RemoveFileFails

ReliableSpec == ReliableInit /\ [][ReliableNext]_vars

\* the destinations of the batch: the tables its CSV files map to
Destinations == {TableIdOf(f) : f \in Enumerated}

\* every row of the old table is a row of the new one, at its place, equal in
\* every column the old table had but for a null marker that was filled in
KeepsRows(old, new) ==
    /\ Len(new.schema) >= Len(old.schema)
    /\ Len(new.rows) >= Len(old.rows)
    /\ \A k \in 1..Len(old.rows) : \A i \in 1..Len(old.schema) :
        \/ new.rows[k][i] = old.rows[k][i]
        \/ old.schema[i].name = IngestionDate /\ old.rows[k][i].null

\* C12: with a reliable metadata fetch, no step of the batch removes a row
\* that a destination table of the batch holds: the table stays and keeps
\* every row it had.
C12_DestinationsAppendOnly ==
    [][\A t \in Destinations \cap DOMAIN tables :
            /\ t \in DOMAIN tables'
            /\ KeepsRows(tables[t], tables'[t])]_vars

====
